---- MODULE Spec2Model ----
(***************************************************************************)
(* prom-config-watcher (src/main.go): the coordinator loop of main, the   *)
(* delay timer, the signal channel and the listener goroutine that feeds  *)
(* file modification times through the changeTime channel.                *)
(*                                                                         *)
(* Time is a discrete clock `now`.  time.Time{} is ZeroTime; every real   *)
(* instant is >= 1.  The program is built without a go.mod, so the timer  *)
(* has the channel of capacity one that Reset does not drain.             *)
(*                                                                         *)
(* Specifications:                                                         *)
(*   Spec            the loop, the timer and the listener, among files    *)
(*                   written at the present time                          *)
(*   InPassSpec      Spec with the writes that fall in a pass remembered  *)
(*   FairSpec        Spec with main, the listener and the timer scheduled *)
(*   SelectFairSpec  Spec with the select's choice fair to the signal     *)
(*   SkewSpec        Spec among files whose times are set freely          *)
(*   FaultSpec       SkewSpec with a reload endpoint that may be          *)
(*                   unreachable                                          *)
(*   ExpandSpec      os.ExpandEnv on any text, applied once and twice     *)
(*   PipelineSpec    one run of processConfigChanges over a directory     *)
(* In the first six a pass is three steps (pipeline, notifier, update of  *)
(* lastConfigProcess); what the pipeline does to the files is followed in *)
(* PipelineSpec.                                                           *)
(***************************************************************************)
EXTENDS Integers, Sequences, FiniteSets, TLC

\* ---------------------------------------------------------------- bounds
MaxTime == 3        \* the clock runs from 1 to MaxTime
MaxLen == 4         \* characters of a text given to os.ExpandEnv
MaxPending == 1     \* raw filesystem events the watcher holds at a time

\* time.Time{} (main.go:62)
ZeroTime == 0

\* -process-delay-time (main.go:48): the quiet period, which is the unit of
\* the clock
ProcessDelayTime == 1

Files == {"a", "b"}
Times == 1..MaxTime
PassStates == {"process", "notify", "record"}

VARIABLES
    now,                \* the clock read by time.Now()
    pc,                 \* main: "select" | "process" | "notify" | "record" | "exited"
                        \* ("off" where main is not run)
    lastConfigProcess,  \* main.go:62
    lastConfigChange,   \* main.go:64
    delayTimer,         \* main.go:65: [armed, when]
    timerC,             \* delayTimer.C, capacity 1: "empty" | "fresh" | "stale"
    sigs,               \* main.go:58: signals buffered in sigs (capacity 1)
    fileChangeTime,     \* value the listener is blocked sending on changeTime
    lpc,                \* listenForChanges: "recv" | "send"
    events,             \* watcher.Events: raw events (paths) not yet received
    files,              \* the watched files: [exists, modTime]
    \* history variables, read only by the properties
    changed,            \* the loop has handled a ChangeEvent
    passes,             \* passes started
    owed,               \* a ChangeEvent newer than lastConfigProcess was handled, no pass since
    missed,             \* (InPassSpec) a file was written after the pipeline of a pass had run and before
                        \* lastConfigProcess was set, and no pipeline has run since
    waited,             \* the pending (or last) send had to wait for a pass
    \* the reload endpoint (main.go:47, 99-108)
    endpoint,           \* [up: it answers http.Post, reloads: requests received]
    \* os.ExpandEnv taken alone (main.go:142): [xpc |-> "off"], or
    \* [xpc, content, environ, keeps, expanded, reexpanded]
    subst,
    \* one run of processConfigChanges taken alone (main.go:110-149):
    \* [ppc |-> "off"], or
    \* [ppc, copyFiles, expandVars, environ, keeps, root, source, before,
    \*  target, walk, wrote]
    pipe

\* what the loop of main and the listener leave alone
offVars == <<endpoint, subst, pipe>>

vars == <<now, pc, lastConfigProcess, lastConfigChange,
          delayTimer, timerC, sigs, fileChangeTime, lpc, events, files,
          changed, passes, owed, missed, waited, endpoint, subst, pipe>>

coordVars == <<pc, lastConfigProcess, lastConfigChange, delayTimer, timerC>>
listenerVars == <<fileChangeTime, lpc, events>>
histVars == <<changed, passes, owed, missed, waited>>

\* ------------------------------------------------------------- helpers

\* the comparison with its arguments exchanged
Before_Swapped(t, u) == u < t

\* a comparison that also holds of equal instants
Before_OrEqual(t, u) == t <= u

\* time.Time.Before (main.go:86)
Before(t, u) == t < u

\* the timer created stopped
NewTimer_Stopped(d) == [armed |-> FALSE, when |-> ZeroTime]

\* time.NewTimer(d) (main.go:65): armed, expiring d from now, channel empty
NewTimer(d) == [armed |-> TRUE, when |-> now + d]

\* Stop in the place of Reset
Reset_Stop(d) == [armed |-> FALSE, when |-> ZeroTime]

\* Timer.Reset(d) (main.go:82): re-arms the timer; a value already sent on
\* the channel stays there (it now belongs to an earlier arming)
Reset(d) == [armed |-> TRUE, when |-> now + d]

\* The channel after Reset: not drained
ResetChannel(c) == IF c = "empty" THEN "empty" ELSE "stale"

\* make(chan time.Time) (main.go:156): unbuffered, so a send completes only
\* in a rendezvous with the receive of main.go:80
SendReady == lpc = "send"

\* main.go:52-67: the state in which main enters its loop
CoordInit ==
    /\ now = 1
    /\ pc = "select"
    /\ lastConfigProcess = ZeroTime
    /\ lastConfigChange = now
    /\ delayTimer = NewTimer(0)
    /\ timerC = "empty"
    /\ sigs = 0
    /\ fileChangeTime = ZeroTime
    /\ lpc = "recv"
    /\ events = <<>>
    /\ files \in [Files -> {[exists |-> FALSE, modTime |-> ZeroTime],
                            [exists |-> TRUE, modTime |-> 1]}]
    /\ changed = FALSE
    /\ passes = 0
    /\ owed = FALSE
    /\ missed = FALSE
    /\ waited = FALSE
    /\ subst = [xpc |-> "off"]
    /\ pipe = [ppc |-> "off"]

\* the reload endpoint is reachable
Init == endpoint = [up |-> TRUE, reloads |-> 0] /\ CoordInit

\* the reload endpoint may be unreachable for the whole run
FaultInit == endpoint \in [up : BOOLEAN, reloads : {0}] /\ CoordInit

\* ------------------------------------------------------------ environment

\* the clock advances
Tick ==
    /\ pc # "exited"
    /\ now < MaxTime
    /\ now' = now + 1
    /\ UNCHANGED <<coordVars, sigs, listenerVars, files, histVars>>
    /\ UNCHANGED offVars

\* SIGINT/SIGTERM: signal.Notify sends without blocking into sigs (main.go:58-60)
Signal ==
    /\ pc # "exited"
    /\ sigs = 0
    /\ sigs' = 1
    /\ UNCHANGED <<now, coordVars, listenerVars, files, histVars>>
    /\ UNCHANGED offVars

\* a watched file is written: its modification time becomes now, the watcher
\* queues an event for it
Write(f) ==
    /\ pc # "exited"
    /\ Len(events) < MaxPending
    /\ files' = [files EXCEPT ![f] = [exists |-> TRUE, modTime |-> now]]
    /\ events' = Append(events, f)
    /\ UNCHANGED <<now, coordVars, sigs, fileChangeTime, lpc,
                   changed, passes, owed, waited>>
    /\ UNCHANGED offVars

\* the write, where nobody keeps track of the pass it falls in
Touch(f) == Write(f) /\ UNCHANGED missed

\* the write, remembered when it falls between the pipeline of a pass and the
\* update of lastConfigProcess
TouchInPass(f) == Write(f) /\ missed' = (missed \/ pc \in {"notify", "record"})

\* a watched file's attributes change (chmod): an event, the modification
\* time stays
Chmod(f) ==
    /\ pc # "exited"
    /\ Len(events) < MaxPending
    /\ files[f].exists
    /\ events' = Append(events, f)
    /\ UNCHANGED <<now, coordVars, sigs, fileChangeTime, lpc,
                   files, histVars>>
    /\ UNCHANGED offVars

\* a watched file's modification time is set (utimes, as touch -d or a copy
\* that keeps the times of a machine whose clock is ahead): an event, and a
\* modification time that need not be the present
Utimes(f, t) ==
    /\ pc # "exited"
    /\ Len(events) < MaxPending
    /\ files[f].exists
    /\ files' = [files EXCEPT ![f].modTime = t]
    /\ events' = Append(events, f)
    /\ UNCHANGED <<now, coordVars, sigs, fileChangeTime, lpc, histVars>>
    /\ UNCHANGED offVars

\* a watched file is removed: an event for a path that no longer stats
Remove(f) ==
    /\ pc # "exited"
    /\ Len(events) < MaxPending
    /\ files[f].exists
    /\ files' = [files EXCEPT ![f] = [exists |-> FALSE, modTime |-> ZeroTime]]
    /\ events' = Append(events, f)
    /\ UNCHANGED <<now, coordVars, sigs, fileChangeTime, lpc, histVars>>
    /\ UNCHANGED offVars

\* ------------------------------------------------------------ the runtime

\* the runtime expires the timer at or after its deadline: a non-blocking
\* send on delayTimer.C, dropped when the channel already holds a value
TimerExpire ==
    /\ pc # "exited"
    /\ delayTimer.armed
    /\ now >= delayTimer.when
    /\ delayTimer' = [armed |-> FALSE, when |-> ZeroTime]
    /\ timerC' = IF timerC = "empty" THEN "fresh" ELSE timerC
    /\ UNCHANGED <<now, pc, lastConfigProcess, lastConfigChange,
                   sigs, listenerVars, files, histVars>>
    /\ UNCHANGED offVars

\* ------------------------------------------------------------ listener

\* listenForChanges, main.go:186-195, stat succeeds: blocks in the send
ListenerEvent ==
    /\ pc # "exited"
    /\ lpc = "recv"
    /\ events # <<>>
    /\ files[Head(events)].exists
    /\ events' = Tail(events)
    /\ fileChangeTime' = files[Head(events)].modTime
    /\ lpc' = "send"
    /\ waited' = (pc \in PassStates)
    /\ UNCHANGED <<now, coordVars, sigs, files,
                   changed, passes, owed, missed>>
    /\ UNCHANGED offVars

\* a failed stat that sends the zero time all the same
ListenerStatError_SendZero ==
    /\ pc # "exited"
    /\ lpc = "recv"
    /\ events # <<>>
    /\ ~files[Head(events)].exists
    /\ events' = Tail(events)
    /\ fileChangeTime' = ZeroTime
    /\ lpc' = "send"
    /\ UNCHANGED <<now, coordVars, sigs, files, histVars>>
    /\ UNCHANGED offVars

\* listenForChanges, main.go:186-192, stat fails: the event is dropped
ListenerStatError ==
    /\ pc # "exited"
    /\ lpc = "recv"
    /\ events # <<>>
    /\ ~files[Head(events)].exists
    /\ events' = Tail(events)
    /\ UNCHANGED <<now, coordVars, sigs, fileChangeTime, lpc,
                   files, histVars>>
    /\ UNCHANGED offVars

\* ------------------------------------------------------------ coordinator

\* the signal acted on wherever the loop is
HandleSignal_Anywhere ==
    /\ pc # "exited"
    /\ sigs > 0
    /\ sigs' = sigs - 1
    /\ pc' = "exited"
    /\ UNCHANGED <<now, lastConfigProcess, lastConfigChange,
                   delayTimer, timerC, listenerVars, files, histVars>>
    /\ UNCHANGED offVars

\* the signal taken only when no other case of the select is ready
HandleSignal_WhenIdle ==
    /\ pc = "select"
    /\ sigs > 0
    /\ ~SendReady
    /\ timerC = "empty"
    /\ sigs' = sigs - 1
    /\ pc' = "exited"
    /\ UNCHANGED <<now, lastConfigProcess, lastConfigChange,
                   delayTimer, timerC, listenerVars, files, histVars>>
    /\ UNCHANGED offVars

\* main.go:76-79
HandleSignal ==
    /\ pc = "select"
    /\ sigs > 0
    /\ sigs' = sigs - 1
    /\ pc' = "exited"
    /\ UNCHANGED <<now, lastConfigProcess, lastConfigChange,
                   delayTimer, timerC, listenerVars, files, histVars>>
    /\ UNCHANGED offVars

\* main.go:80-82 with the send of main.go:195
HandleChange ==
    /\ pc = "select"
    /\ SendReady
    /\ lastConfigChange' = fileChangeTime
    /\ delayTimer' = Reset(ProcessDelayTime)
    /\ timerC' = ResetChannel(timerC)
    /\ lpc' = "recv"
    /\ changed' = TRUE
    /\ owed' = (owed \/ fileChangeTime > lastConfigProcess)
    /\ UNCHANGED <<now, pc, lastConfigProcess, sigs,
                   fileChangeTime, events, files, passes, missed, waited>>
    /\ UNCHANGED offVars

\* main.go:84-91, up to the call of processConfigChanges
HandleTimer ==
    /\ pc = "select"
    /\ timerC # "empty"
    /\ timerC' = "empty"
    /\ IF Before(lastConfigProcess, lastConfigChange)
       THEN /\ pc' = "process"
            /\ passes' = passes + 1
            /\ owed' = FALSE
            /\ waited' = (waited \/ lpc = "send")
       ELSE /\ pc' = "select"
            /\ UNCHANGED <<passes, owed, waited>>
    /\ UNCHANGED <<now, lastConfigProcess, lastConfigChange,
                   delayTimer, sigs, listenerVars, files,
                   changed, missed>>
    /\ UNCHANGED offVars

\* main.go:88: processConfigChanges reads every watched file
ProcessConfigChanges ==
    /\ pc = "process"
    /\ pc' = "notify"
    /\ missed' = FALSE
    /\ UNCHANGED <<now, lastConfigProcess, lastConfigChange,
                   delayTimer, timerC, sigs, listenerVars, files,
                   changed, passes, owed, waited>>
    /\ UNCHANGED offVars

\* main.go:89, notifyPrometheus (main.go:99-108): the request reaches the
\* endpoint or fails; the error is logged and nothing is returned
NotifyPrometheus ==
    /\ pc = "notify"
    /\ pc' = "record"
    /\ endpoint' = [endpoint EXCEPT !.reloads = IF endpoint.up THEN @ + 1 ELSE @]
    /\ UNCHANGED <<subst, pipe>>
    /\ UNCHANGED <<now, lastConfigProcess, lastConfigChange,
                   delayTimer, timerC, sigs, listenerVars, files, histVars>>

\* main.go:90
RecordProcessTime ==
    /\ pc = "record"
    /\ lastConfigProcess' = now
    /\ pc' = "select"
    /\ UNCHANGED <<now, lastConfigChange,
                   delayTimer, timerC, sigs, listenerVars, files, histVars>>
    /\ UNCHANGED offVars

\* every step but the writing of a file
NextButWrite ==
    \/ Tick
    \/ Signal
    \/ \E f \in Files : Chmod(f)
    \/ \E f \in Files : Remove(f)
    \/ TimerExpire
    \/ ListenerEvent
    \/ ListenerStatError
    \/ HandleSignal
    \/ HandleChange
    \/ HandleTimer
    \/ ProcessConfigChanges
    \/ NotifyPrometheus
    \/ RecordProcessTime

Next ==
    \/ \E f \in Files : Touch(f)
    \/ NextButWrite

Spec == Init /\ [][Next]_vars

\* the same program, the writes that fall in a pass remembered in `missed`
InPassNext ==
    \/ \E f \in Files : TouchInPass(f)
    \/ NextButWrite

InPassSpec == Init /\ [][InPassNext]_vars

\* the same program among files whose modification times are set freely
SkewNext ==
    \/ Next
    \/ \E f \in Files : \E t \in Times : Utimes(f, t)

SkewSpec == Init /\ [][SkewNext]_vars

\* the same, with a reload endpoint that may be unreachable
FaultSpec == FaultInit /\ [][SkewNext]_vars

\* one iteration step of the loop of main (main.go:74-95)
Coordinator ==
    \/ HandleSignal
    \/ HandleChange
    \/ HandleTimer
    \/ ProcessConfigChanges
    \/ NotifyPrometheus
    \/ RecordProcessTime

\* one iteration of the loop of listenForChanges (main.go:181-198)
Listener == ListenerEvent \/ ListenerStatError

\* The goroutines and the runtime's timer are always scheduled: main takes a
\* step whenever one stays possible, so does the listener, and an armed timer
\* past its deadline expires.  Nothing is assumed of which ready case a
\* select picks, nor of the environment (clock, files, signals).
FairSpec ==
    /\ Spec
    /\ WF_vars(Coordinator)
    /\ WF_vars(Listener)
    /\ WF_vars(TimerExpire)

\* the statements of a started pass (main.go:88-90)
PassStep == ProcessConfigChanges \/ NotifyPrometheus \/ RecordProcessTime

\* A select picks at random among its ready cases, so a signal case that
\* stays ready is eventually the one picked, and a started pass runs on.
\* While a signal waits in sigs one of the two is always possible: the
\* assumption is weak fairness of "take the signal or go on with the pass",
\* which strong fairness of the signal case and scheduling of main imply.
\* Nothing is assumed of the other cases of the select, of the listener, the
\* timer or the environment.
SelectFairSpec == Spec /\ WF_vars(HandleSignal \/ PassStep)

\* ------------------------------------------------------------ os.ExpandEnv

\* The characters texts are made of: the three of the reference syntax, two
\* letters and one character that is neither part of a name nor special.
Alphabet == {"$", "{", "}", "a", "b", "."}
Letters == {"a", "b"}

\* the texts of at most n characters
Texts(n) == UNION {[1..k -> Alphabet] : k \in 0..n}

\* the variables the environment may set, and the values they may have
VarNames == {<<"a">>, <<"b">>}
Values == {<<".">>, <<"$", "b">>}

\* an environment sets some of the variables: name -> value
Environs == UNION {[N -> Values] : N \in SUBSET VarNames}

\* os.isShellSpecialVar
isShellSpecialVar(c) ==
    c \in {"*", "#", "$", "@", "!", "?", "-",
           "0", "1", "2", "3", "4", "5", "6", "7", "8", "9"}

\* os.isAlphaNum, over the letters of Alphabet
isAlphaNum(c) ==
    c \in {"_", "0", "1", "2", "3", "4", "5", "6", "7", "8", "9"} \cup Letters

\* an unset variable read as its own name
Getenv_KeepName(env, name) == IF name \in DOMAIN env THEN env[name] ELSE name

\* "$$" read as an escaped dollar sign
Getenv_DollarEscape(env, name) ==
    IF name = <<"$">> THEN <<"$">>
    ELSE IF name \in DOMAIN env THEN env[name] ELSE <<>>

\* os.Getenv: the value of a set variable, the empty string otherwise
Getenv(env, name) == IF name \in DOMAIN env THEN env[name] ELSE <<>>

\* os.getShellName: the name the text after a "$" begins with, and the
\* number of characters it takes
getShellName(s) ==
    IF s[1] = "{"
    THEN IF Len(s) > 2 /\ isShellSpecialVar(s[2]) /\ s[3] = "}"
         THEN [name |-> <<s[2]>>, w |-> 3]
         ELSE LET closing == {i \in 2..Len(s) : s[i] = "}"}
                  first == CHOOSE i \in closing : \A j \in closing : i <= j
              IN  IF closing = {} THEN [name |-> <<>>, w |-> 1]
                  ELSE IF first = 2 THEN [name |-> <<>>, w |-> 2]
                  ELSE [name |-> SubSeq(s, 2, first - 1), w |-> first]
    ELSE IF isShellSpecialVar(s[1])
    THEN [name |-> <<s[1]>>, w |-> 1]
    ELSE LET prefixes == {k \in 0..Len(s) : \A j \in 1..k : isAlphaNum(s[j])}
             n == CHOOSE k \in prefixes : \A j \in prefixes : j <= k
         IN  [name |-> SubSeq(s, 1, n), w |-> n]

\* os.Expand with os.Getenv as its mapping.  A "$" with more text after it
\* is followed by a name (replaced by the variable's value), by bad syntax
\* (dropped) or by neither; in the last case the os package of Go 1.11 and
\* later keeps the "$" and earlier ones drop it (keeps tells which).
RECURSIVE Expand(_, _, _)
Expand(s, env, keeps) ==
    IF s = <<>> THEN <<>>
    ELSE IF s[1] = "$" /\ Len(s) > 1
    THEN LET g == getShellName(Tail(s))
             piece == IF g.name = <<>> /\ g.w > 0 THEN <<>>
                      ELSE IF g.name = <<>> THEN (IF keeps THEN <<"$">> ELSE <<>>)
                      ELSE Getenv(env, g.name)
         IN  piece \o Expand(SubSeq(s, g.w + 2, Len(s)), env, keeps)
    ELSE <<s[1]>> \o Expand(Tail(s), env, keeps)

\* os.ExpandEnv as called at main.go:142
ExpandEnv(s, env, keeps) == Expand(s, env, keeps)

\* the loop of main and the listener are not running
CoordOff ==
    /\ now = 1
    /\ pc = "off"
    /\ lastConfigProcess = ZeroTime
    /\ lastConfigChange = ZeroTime
    /\ delayTimer = [armed |-> FALSE, when |-> ZeroTime]
    /\ timerC = "empty"
    /\ sigs = 0
    /\ fileChangeTime = ZeroTime
    /\ lpc = "recv"
    /\ events = <<>>
    /\ files = <<>>
    /\ changed = FALSE
    /\ passes = 0
    /\ owed = FALSE
    /\ missed = FALSE
    /\ waited = FALSE
    /\ endpoint = [up |-> TRUE, reloads |-> 0]

coordAll == <<now, pc, lastConfigProcess, lastConfigChange, delayTimer, timerC,
              sigs, fileChangeTime, lpc, events, files, histVars, endpoint>>

\* any text, any environment, either os package
ExpandInit ==
    /\ CoordOff
    /\ pipe = [ppc |-> "off"]
    /\ subst \in [xpc : {"input"}, content : Texts(MaxLen), environ : Environs,
                  keeps : BOOLEAN, expanded : {<<>>}, reexpanded : {<<>>}]

\* updatedContent := os.ExpandEnv(string(contents))
ExpandOnce ==
    /\ subst.xpc # "off"
    /\ subst.xpc = "input"
    /\ subst' = [subst EXCEPT !.xpc = "once",
                              !.expanded = ExpandEnv(subst.content, subst.environ, subst.keeps)]
    /\ UNCHANGED <<coordAll, pipe>>

\* os.ExpandEnv applied to its own output
ExpandTwice ==
    /\ subst.xpc # "off"
    /\ subst.xpc = "once"
    /\ subst' = [subst EXCEPT !.xpc = "twice",
                              !.reexpanded = ExpandEnv(subst.expanded, subst.environ, subst.keeps)]
    /\ UNCHANGED <<coordAll, pipe>>

ExpandNext == ExpandOnce \/ ExpandTwice

ExpandSpec == ExpandInit /\ [][ExpandNext]_vars

\* ------------------------------------------------------------ the pipeline

\* what a watched file may hold
FileTexts == {<<"$", "a">>, <<"b">>}

\* ioutil.ReadDir lists the entries sorted by name
FileOrder == <<"a", "b">>

\* a file of the watched path: absent, or there with its text and readable
\* or not
SourceFiles ==
    {[exists |-> FALSE, readable |-> FALSE, text |-> <<>>]}
        \cup [exists : {TRUE}, readable : BOOLEAN, text : FileTexts]

\* a file of the target path: absent, or there with its text
TargetFiles ==
    {[exists |-> FALSE, text |-> <<>>]} \cup [exists : {TRUE}, text : FileTexts]

\* One call processConfigChanges(*watchedPath, *targetPath), whatever the
\* flags, the environment, the watched path (missing, a directory that
\* cannot be listed, a directory of regular files) and the target path.
PipelineInit ==
    /\ CoordOff
    /\ subst = [xpc |-> "off"]
    /\ \E c \in BOOLEAN, x \in BOOLEAN, e \in Environs, k \in BOOLEAN,
          r \in {"missing", "unreadable", "dir"},
          src \in [Files -> SourceFiles], tgt \in [Files -> TargetFiles] :
            pipe = [ppc |-> "start", copyFiles |-> c, expandVars |-> x,
                    environ |-> e, keeps |-> k, root |-> r, source |-> src,
                    before |-> tgt, target |-> tgt, walk |-> <<>>, wrote |-> {}]

\* processConfigChanges on the watched path, main.go:110-126: os.Stat or
\* ioutil.ReadDir fails (logged, return), or the entries are to be visited
ReadDir ==
    /\ pipe.ppc = "start"
    /\ pipe' = IF pipe.root = "dir"
               THEN [pipe EXCEPT !.ppc = "walk",
                                 !.walk = SelectSeq(FileOrder,
                                             LAMBDA f : pipe.source[f].exists)]
               ELSE [pipe EXCEPT !.ppc = "done"]
    /\ UNCHANGED <<coordAll, subst>>

\* processConfigChanges on the next entry, a regular file, and processFile,
\* main.go:127-149: a failed read is logged and the function goes on with
\* empty contents; the contents are expanded and written under the target
\* path, whatever the flags
ProcessFile ==
    /\ pipe.ppc = "walk"
    /\ pipe.walk # <<>>
    /\ LET f == Head(pipe.walk)
           contents == IF pipe.source[f].readable THEN pipe.source[f].text ELSE <<>>
           updatedContent == ExpandEnv(contents, pipe.environ, pipe.keeps)
       IN  pipe' = [pipe EXCEPT !.walk = Tail(pipe.walk),
                                !.target[f] = [exists |-> TRUE, text |-> updatedContent],
                                !.wrote = pipe.wrote \cup {f}]
    /\ UNCHANGED <<coordAll, subst>>

\* processConfigChanges returns, main.go:126
WalkDone ==
    /\ pipe.ppc = "walk"
    /\ pipe.walk = <<>>
    /\ pipe' = [pipe EXCEPT !.ppc = "done"]
    /\ UNCHANGED <<coordAll, subst>>

PipelineNext == ReadDir \/ ProcessFile \/ WalkDone

PipelineSpec == PipelineInit /\ [][PipelineNext]_vars

\* ------------------------------------------------------------ properties

TypeOK ==
    /\ now \in Times
    /\ pc \in {"select", "exited"} \cup PassStates
    /\ lastConfigProcess \in {ZeroTime} \cup Times
    /\ lastConfigChange \in Times
    /\ delayTimer \in [armed : BOOLEAN, when : 0..(MaxTime + ProcessDelayTime)]
    /\ timerC \in {"empty", "fresh", "stale"}
    /\ sigs \in 0..1
    /\ lpc \in {"recv", "send"}
    /\ fileChangeTime \in {ZeroTime} \cup Times
    /\ Len(events) <= MaxPending

\* the program at rest: the loop waits in select and nothing is on its way
\* to it (no raw event, no blocked send, no armed timer, no firing, no signal)
Quiescent ==
    /\ pc = "select"
    /\ ~delayTimer.armed
    /\ timerC = "empty"
    /\ lpc = "recv"
    /\ events = <<>>
    /\ sigs = 0

\* the loop takes a value from delayTimer.C
TimerFiringHandled == pc = "select" /\ timerC # "empty" /\ timerC' = "empty"

\* the loop receives the listener's send
ChangeHandled == lpc = "send" /\ lpc' = "recv"

\* the loop calls processConfigChanges
PassStarts == pc # "process" /\ pc' = "process"

\* C1 (no lost update): once the loop has handled a ChangeEvent whose
\* timestamp is newer than lastConfigProcess, a pass follows; so the program
\* never comes to rest while such an event is still owed its pass.
C1_NoLostUpdate == ~(owed /\ Quiescent)

\* C2 (debounce collapse): a pass that follows a handled ChangeEvent starts
\* no earlier than one full quiet period after the last handled ChangeEvent:
\* never while the countdown armed by that event is still running.
C2_DebounceCollapse ==
    [][(PassStarts /\ changed) => ~(delayTimer.armed /\ now < delayTimer.when)]_vars

\* C3: a timer firing starts a pass (pipeline, then notifier) if and only if
\* lastConfigProcess < lastConfigChange, and nothing else starts a pass.
C3_PassIffNewer ==
    [][ /\ PassStarts => TimerFiringHandled
        /\ TimerFiringHandled => (PassStarts <=> lastConfigProcess < lastConfigChange)
        /\ passes' # passes => (PassStarts /\ passes' = passes + 1)
        /\ PassStarts => passes' = passes + 1
        /\ pc' = "notify" => pc \in {"process", "notify"}
        /\ pc' = "record" => pc \in {"notify", "record"}
        /\ pc = "process" => pc' \in {"process", "notify"}
        /\ pc = "notify" => pc' \in {"notify", "record"} ]_vars

\* C3 witness: a pass has run, a ChangeEvent handled after it armed the
\* timer, and that firing has been handled without starting a pass because
\* lastConfigProcess >= lastConfigChange.
C3_Witness ==
    /\ Quiescent
    /\ passes >= 1
    /\ owed
    /\ lastConfigProcess >= lastConfigChange

\* C4: a file written while a pass is in progress (after the pipeline has
\* read the files, before lastConfigProcess is set) gets a later pass; so the
\* program never comes to rest with such a write not yet processed.
C4_ChangeDuringPass == ~(missed /\ Quiescent)

\* C6: while the loop is busy in a pass the listener can complete its send.
C6_ListenerNeverBlocks ==
    (lpc = "send" /\ pc \in PassStates) => ENABLED HandleChange

\* C8: every firing the loop handles comes from the most recent arming of
\* the timer.
C8_ResetSupersedes == [][TimerFiringHandled => timerC = "fresh"]_vars

\* C9: lastConfigChange is at least every timestamp handled so far: handling
\* a ChangeEvent never lowers it.
C9_LastChangeIsMax ==
    [][ChangeHandled => (lastConfigChange' >= lastConfigChange
                         /\ lastConfigChange' >= fileChangeTime)]_vars

\* C5 (startup pass): as long as the loop has handled no ChangeEvent there is
\* at most one pass, and unless a ChangeEvent is handled or the loop exits
\* that one pass runs to completion.
C5_StartupPass ==
    /\ [](~changed => passes <= 1)
    /\ <>(\/ changed
          \/ pc = "exited"
          \/ (passes = 1 /\ pc = "select" /\ lastConfigProcess # ZeroTime))

\* C5 witness: no raw event ever, the startup pass done, time has moved on
\* and the program is at rest.
C5_Witness ==
    /\ changed = FALSE
    /\ passes = 1
    /\ Quiescent
    /\ now > lastConfigProcess
    /\ lastConfigProcess # ZeroTime

\* C7 (no ChangeEvent lost in the hand-off): a timestamp the listener is
\* sending stays the value offered until the loop receives it; the receive
\* assigns it to lastConfigChange and re-arms the timer; and every send is
\* received unless the loop exits (the listener is again and again out of
\* its send, which is what "every send is eventually received" comes to).
C7_NoEventLost ==
    /\ [][lpc = "send" =>
            \/ lpc' = "send" /\ fileChangeTime' = fileChangeTime
            \/ /\ lpc' = "recv"
               /\ pc = "select"
               /\ lastConfigChange' = fileChangeTime
               /\ delayTimer' = [armed |-> TRUE, when |-> now + ProcessDelayTime]]_vars
    /\ []<>(lpc = "recv" \/ pc = "exited")

\* C7 witness: a timestamp whose send had to wait for a pass has been
\* received: it is lastConfigChange and the timer is armed for it.
C7_Witness ==
    /\ waited
    /\ lpc = "recv"
    /\ changed
    /\ lastConfigChange = fileChangeTime
    /\ delayTimer.armed

\* C10: the loop exits only from select with a signal taken from sigs; a
\* started pass goes through pipeline, notifier and the lastConfigProcess
\* update before the loop is back in select; taking the signal exits at
\* once; after the exit no pass starts and neither timestamp changes.
C10_SignalBetweenIterations ==
    [][ /\ (pc # "exited" /\ pc' = "exited") => (pc = "select" /\ sigs > 0)
        /\ sigs' < sigs => pc' = "exited"
        /\ pc \in PassStates => pc' \in PassStates \cup {"select"}
        /\ (pc \in PassStates /\ pc' = "select") =>
              (pc = "record" /\ lastConfigProcess' = now)
        /\ pc = "exited" =>
              UNCHANGED <<pc, lastConfigProcess, lastConfigChange, passes>> ]_vars

\* C10 witness: the loop has exited on a signal after a pass that ran to
\* its lastConfigProcess update.
C10_Witness ==
    /\ pc = "exited"
    /\ passes >= 1
    /\ lastConfigProcess # ZeroTime
    /\ sigs = 0

\* C11 (a failed pass is not retried): a pass whose reload request fails
\* still goes on to the lastConfigProcess update, which is set to the time
\* of completion; the failed request reaches no endpoint; and a further pass
\* starts only after the loop, since the last pass, has received a timestamp
\* newer than lastConfigProcess.
C11_FailedPassNotRetried ==
    [][ /\ (pc = "notify" /\ pc' # "notify") => pc' = "record"
        /\ (pc = "record" /\ pc' # "record") =>
              (pc' = "select" /\ lastConfigProcess' = now)
        /\ ~endpoint.up => endpoint' = endpoint
        /\ lastConfigChange' # lastConfigChange => ChangeHandled
        /\ (PassStarts /\ passes >= 1) => owed ]_vars

\* C15 (startup pass in the first iteration): the first iteration of the
\* loop of main, whichever case its select takes, starts a pass.
C15_FirstIterationPass ==
    [][ (pc = "select" /\ passes = 0 /\ ~changed
         /\ (pc' = "exited" \/ ChangeHandled \/ TimerFiringHandled))
        => PassStarts ]_vars

\* C15 as it holds: the first timer firing the loop handles starts a pass,
\* in whichever iteration it is handled.
C15_FirstFiringPass ==
    [][ (passes = 0 /\ TimerFiringHandled) => PassStarts ]_vars

\* C15 witness: the first iteration took a ChangeEvent, and the startup
\* pass started in a later iteration, with the first firing handled.
C15_Witness ==
    /\ changed
    /\ passes = 1
    /\ pc = "process"
    /\ lastConfigProcess = ZeroTime

\* C16 (dirty implies armed): whenever the loop waits in its select with
\* lastConfigChange newer than lastConfigProcess, the timer is armed or a
\* firing waits in delayTimer.C.
C16_DirtyImpliesArmed ==
    (pc = "select" /\ lastConfigChange > lastConfigProcess)
        => (delayTimer.armed \/ timerC # "empty")

\* C17 (every timer firing ends clean): when the loop is back at its select
\* after handling a timer firing, with or without a pass, lastConfigProcess
\* is not older than lastConfigChange.
C17_FiringEndsClean ==
    [][ ((TimerFiringHandled /\ pc' = "select") \/ (pc = "record" /\ pc' = "select"))
        => lastConfigProcess' >= lastConfigChange' ]_vars

\* C18 (clean exit on signal): a signal in sigs leaves it only by the loop
\* taking it, which is the exit of the program (os.Exit(0)), and sigs is
\* empty again and again: every signal delivered is eventually taken,
\* whatever ChangeEvents and timer firings are available to the select along
\* the way.
C18_SignalLeadsToExit ==
    /\ []<>(sigs = 0)
    /\ [][sigs' < sigs => pc' = "exited"]_vars

\* C18 witness: the program has exited on the signal in an iteration in
\* which a ChangeEvent and a timer firing were available to the select too.
C18_Witness ==
    /\ pc = "exited"
    /\ sigs = 0
    /\ lpc = "send"
    /\ timerC # "empty"

\* the listener takes a raw event whose path does not stat
StatFails ==
    /\ lpc = "recv"
    /\ events # <<>>
    /\ ~files[Head(events)].exists
    /\ events' = Tail(events)

\* C19 (stat failure drops the event): a raw event whose path does not stat
\* is dropped: nothing is sent, so lastConfigChange, the timer and its
\* channel stay as they are, and the listener is back at its select, where
\* a raw event whose path stats is taken and its modification time sent.
C19_StatErrorDropped ==
    [][ /\ StatFails =>
             /\ lpc' = "recv"
             /\ UNCHANGED <<fileChangeTime, coordVars, changed>>
        /\ (lpc = "recv" /\ events # <<>> /\ events' = Tail(events)
            /\ files[Head(events)].exists) =>
             (lpc' = "send" /\ fileChangeTime' = files[Head(events)].modTime) ]_vars

\* C19 witness: the listener, which has delivered a ChangeEvent before and
\* is back at its select, drops the event of a path that does not stat, the
\* loop waiting in its select with the timer armed.
C19_Witness ==
    /\ changed
    /\ pc = "select"
    /\ delayTimer.armed
    /\ ENABLED (ListenerStatError /\ lpc' = "recv" /\ UNCHANGED coordVars)

\* the text has no "$"
Literal(s) == \A i \in 1..Len(s) : s[i] # "$"

\* the text is one reference, $NAME or ${NAME}, to a name made of letters
IsBareRef(r) ==
    /\ Len(r) >= 2
    /\ r[1] = "$"
    /\ \A i \in 2..Len(r) : r[i] \in Letters

IsBracedRef(r) ==
    /\ Len(r) >= 4
    /\ r[1] = "$" /\ r[2] = "{" /\ r[Len(r)] = "}"
    /\ \A i \in 3..(Len(r) - 1) : r[i] \in Letters

RefName(r) == IF r[2] = "{" THEN SubSeq(r, 3, Len(r) - 1) ELSE SubSeq(r, 2, Len(r))

\* the ways to read the text as literal text, one reference, literal text
\* (a $NAME reference ends where the letters end)
OneRefSplits(s) ==
    {ij \in (1..Len(s)) \X (1..Len(s)) :
        LET pre == SubSeq(s, 1, ij[1] - 1)
            r == SubSeq(s, ij[1], ij[2])
            post == SubSeq(s, ij[2] + 1, Len(s))
        IN  /\ ij[1] <= ij[2]
            /\ Literal(pre) /\ Literal(post)
            /\ \/ IsBracedRef(r)
               \/ IsBareRef(r) /\ (post = <<>> \/ post[1] \notin Letters)}

\* C13 (unresolved references are left untouched): in a text made of
\* literal text around one reference, the output has the variable's value in
\* place of the reference when the variable is set, and is the text itself,
\* the reference left as written, when it is not.
C13_UnsetLeftLiteral ==
    (subst.xpc # "off" /\ subst.xpc # "input") =>
        \A ij \in OneRefSplits(subst.content) :
            LET pre == SubSeq(subst.content, 1, ij[1] - 1)
                r == SubSeq(subst.content, ij[1], ij[2])
                post == SubSeq(subst.content, ij[2] + 1, Len(subst.content))
            IN  subst.expanded =
                    IF RefName(r) \in DOMAIN subst.environ
                    THEN pre \o subst.environ[RefName(r)] \o post
                    ELSE subst.content

\* C13 as it holds: the reference to a set variable is replaced by its
\* value, the reference to an unset one by the empty string.
C13_UnsetBecomesEmpty ==
    (subst.xpc # "off" /\ subst.xpc # "input") =>
        \A ij \in OneRefSplits(subst.content) :
            LET pre == SubSeq(subst.content, 1, ij[1] - 1)
                r == SubSeq(subst.content, ij[1], ij[2])
                post == SubSeq(subst.content, ij[2] + 1, Len(subst.content))
            IN  subst.expanded =
                    IF RefName(r) \in DOMAIN subst.environ
                    THEN pre \o subst.environ[RefName(r)] \o post
                    ELSE pre \o post

\* C13 witness: a text with a reference to an unset variable between
\* literal text has been expanded, other variables being set.
C13_Witness ==
    /\ subst.xpc # "off"
    /\ subst.xpc = "once"
    /\ subst.content = <<".", "$", "b", ".">>
    /\ DOMAIN subst.environ = {<<"a">>}
    /\ subst.expanded = <<".", ".">>

\* C14 (idempotent substitution): expanding the output of the expansion
\* gives that output again, whatever the values of the variables.
C14_Idempotent ==
    (subst.xpc # "off" /\ subst.xpc = "twice") => subst.reexpanded = subst.expanded

\* no value of the environment has a "$"
DollarFree(env) == \A n \in DOMAIN env : Literal(env[n])

\* C14 as it holds: expanding the output of the expansion gives that output
\* again when no value of the environment has a "$".
C14_IdempotentDollarFree ==
    (subst.xpc # "off" /\ subst.xpc = "twice" /\ DollarFree(subst.environ))
        => subst.reexpanded = subst.expanded

\* C14 witness: with values free of "$", an expansion that replaced a
\* reference and whose output still has a "$" has been expanded again.
C14_Witness ==
    /\ subst.xpc # "off"
    /\ subst.xpc = "twice"
    /\ DOMAIN subst.environ # {}
    /\ DollarFree(subst.environ)
    /\ subst.expanded # subst.content
    /\ ~Literal(subst.expanded)
    /\ subst.reexpanded = subst.expanded

\* C12 (the flags control the pass): with copy-files=false nothing is
\* written under the target path; with expand-vars=false a file read is
\* written as it is; with both true it is written expanded.
C12_FlagsControlPass ==
    pipe.ppc # "off" =>
        /\ ~pipe.copyFiles =>
              \A f \in Files :
                 pipe.source[f].readable =>
                    (f \notin pipe.wrote /\ pipe.target[f] = pipe.before[f])
        /\ \A f \in pipe.wrote :
              pipe.source[f].readable =>
                 pipe.target[f].text =
                    IF pipe.expandVars
                    THEN ExpandEnv(pipe.source[f].text, pipe.environ, pipe.keeps)
                    ELSE pipe.source[f].text

\* C20 (a failed read skips the file): for a file that cannot be read
\* nothing is written, and the file of that name under the target path is
\* as it was before the pass; the walk goes on to the other files.
C20_ReadFailureSkipsFile ==
    pipe.ppc # "off" =>
        /\ \A f \in Files :
              (pipe.source[f].exists /\ ~pipe.source[f].readable) =>
                 (f \notin pipe.wrote /\ pipe.target[f] = pipe.before[f])
        /\ pipe.ppc = "done" /\ pipe.root = "dir" =>
              \A f \in Files :
                 (pipe.source[f].exists /\ pipe.source[f].readable) => f \in pipe.wrote

====
